---- MODULE Spec2Model ----
(***************************************************************************)
(* A model of masterkey's TokenManager (lib/TokenManager.js): the          *)
(* step-sequencing of multi-factor authentication over signed              *)
(* continuation tokens, together with the AuthResult / AuthChallenge value *)
(* objects and the three backends the test suite plugs in.                 *)
(*                                                                         *)
(* JavaScript values that have no TLA+ counterpart are written as          *)
(*   Null, Undefined  - the strings "<null>", "<undefined>" where the      *)
(*                      other values of the slot are strings;              *)
(*   JNull, JArray(s) - tagged records where the other values are not.     *)
(* A JWT is the record [alg, payload, sig]; sig is the keyed digest of     *)
(* (alg, payload), so a token whose payload was changed after signing or   *)
(* that was signed with another key does not verify.                       *)
(***************************************************************************)
EXTENDS Integers, Sequences, FiniteSets, TLC

(* ------------------------------ bounds -------------------------------- *)
MaxCalls == 4
MaxTicks == 1
MaxCodes == 2

(* ------------------------- program constants -------------------------- *)
ExpiresIn == 8

Null == "<null>"
Undefined == "<undefined>"
NoError == "<no error>"

tokenKey == "chess-verify=barrel"
OtherKey == "mode_column8really"

Methods == {"password", "date", "code"}
Subjects == {"user1", "user2"}

passwords == [s \in Subjects |-> IF s = "user1" THEN "password1" ELSE Undefined]

VARIABLES
  authSteps,   \* TokenManager._authSteps
  now,         \* the clock JWT.sign and JWT.verify read, in hours
  calls,       \* the getToken / requestChallenge calls in flight, per slot
  minted,      \* history: the tokens signed, each with the token its call presented
  userCodes,   \* CodeBackend._userCodes
  nextCode,    \* how many codes uuid.v4() has drawn, plus one
  delivered,   \* the codes handed to the code callback
  started,     \* how many calls were made
  ctor,        \* the last application of AuthResult's constructor on its own
  consumed,    \* history: the codes CodeBackend.authenticate accepted, per subject
  progress     \* history: progress[s] = k when the backends of steps 1..k have
               \*   accepted authenticate calls for s, one after the other in that order

vars == <<authSteps, now, calls, minted, userCodes, nextCode, delivered, started, ctor,
          consumed, progress>>

(* --------------------------- JavaScript values ------------------------ *)
JNull == [t |-> "null"]
JUndefined == [t |-> "undefined"]
JArray(s) == [t |-> "array", v |-> s]
JString(s) == [t |-> "string", v |-> s]
JBool(b) == [t |-> "boolean", v |-> b]

\* !v for the string-valued slots (method, secret).
Falsy(v) == v \in {Null, Undefined, ""}

\* Array.prototype.indexOf: the 0-based position of the first x, or -1.
IndexOf(seq, x) ==
  IF \E i \in 1..Len(seq) : seq[i] = x
  THEN (CHOOSE i \in 1..Len(seq) : seq[i] = x /\ \A j \in 1..(i - 1) : seq[j] # x) - 1
  ELSE -1

\* seq[i] with a 0-based index; out of range reads undefined.
At(seq, i) == IF i \in 0..(Len(seq) - 1) THEN seq[i + 1] ELSE Undefined

(* ------------------------------- tokens ------------------------------- *)
NullPayload == [from |-> Null, final |-> FALSE, sub |-> Null, iat |-> 0, exp |-> 0]

HMAC(key, alg, payload) == [key |-> key, alg |-> alg, payload |-> payload]

\* previousToken = null (the default of the parameter).
NullToken == [alg |-> Null, payload |-> NullPayload, sig |-> HMAC(Null, Null, NullPayload)]

\* JWT.sign(claims, key, {algorithm: 'HS256', expiresIn: '8h', subject}) at time t.
JWTSign(claims, key, subject, t) ==
  LET payload == [from |-> claims.from, final |-> claims.final, sub |-> subject,
                  iat |-> t, exp |-> t + ExpiresIn]
  IN [alg |-> "HS256", payload |-> payload, sig |-> HMAC(key, "HS256", payload)]

\* JWTVerify called without the subject option of line 101.
JWTVerify_NoSubject(token, key, subject, t) ==
  IF token.alg # "HS256"
  THEN [err |-> "invalid algorithm", payload |-> NullPayload]
  ELSE IF token.sig # HMAC(key, token.alg, token.payload)
  THEN [err |-> "invalid signature", payload |-> NullPayload]
  ELSE IF t >= token.payload.exp
  THEN [err |-> "jwt expired", payload |-> NullPayload]
  ELSE [err |-> NoError, payload |-> token.payload]

\* JWT.verify(token, key, {algorithms: ['HS256'], subject}) at time t.
JWTVerify(token, key, subject, t) ==
  IF token.alg # "HS256"
  THEN [err |-> "invalid algorithm", payload |-> NullPayload]
  ELSE IF token.sig # HMAC(key, token.alg, token.payload)
  THEN [err |-> "invalid signature", payload |-> NullPayload]
  ELSE IF t >= token.payload.exp
  THEN [err |-> "jwt expired", payload |-> NullPayload]
  ELSE IF token.payload.sub # subject
  THEN [err |-> "jwt subject invalid", payload |-> NullPayload]
  ELSE [err |-> NoError, payload |-> token.payload]

VerifyErrors == {"invalid algorithm", "invalid signature", "jwt expired", "jwt subject invalid"}

FinalTokenError == "The token passed as previous token was a final token - no subsequent authentication is needed"
InvalidStepError == "The previous authentication step is invalid"
InvalidMethodError == "Invalid authentication method selected"

SequencingErrors == {FinalTokenError, InvalidStepError, InvalidMethodError}

(* ------------------------- TokenManager (pure) ------------------------ *)
\* VerifyToken with the tokens that calls were completed with kept in a
\* revocation list (the constructor's revokeDB) and refused.
VerifyToken_SingleUse(previousToken, subjectID, t) ==
  IF previousToken = NullToken
  THEN [err |-> NoError, payload |-> NullPayload]
  ELSE IF \E m \in minted : m.previousToken = previousToken
  THEN [err |-> "jwt revoked", payload |-> NullPayload]
  ELSE JWTVerify(previousToken, tokenKey, subjectID, t)

\* _verifyPreviousToken, lines 98-105: a previous token is verified against the
\* key and the subject of the call; without one the payload is null.
VerifyToken(previousToken, subjectID, t) ==
  IF previousToken # NullToken
  THEN JWTVerify(previousToken, tokenKey, subjectID, t)
  ELSE [err |-> NoError, payload |-> NullPayload]

\* ResolveNext with line 128 reading currentMethodIndex <= previousMethodIndex:
\* any later step passes.
ResolveNext_SkipAhead(steps, payload, method) ==
  LET previousMethodIndex == IndexOf(steps, payload.from)
      chosen == IF Falsy(method) THEN At(steps, previousMethodIndex + 1) ELSE method
      currentMethodIndex == IndexOf(steps, chosen)
  IN IF payload.final
     THEN [err |-> FinalTokenError, method |-> method, payload |-> payload]
     ELSE IF previousMethodIndex < 0
     THEN [err |-> InvalidStepError, method |-> method, payload |-> payload]
     ELSE IF currentMethodIndex < 0 \/ currentMethodIndex <= previousMethodIndex
     THEN [err |-> InvalidMethodError, method |-> chosen, payload |-> payload]
     ELSE [err |-> NoError, method |-> chosen, payload |-> payload]

\* ResolveNext with line 128 checking only that the method exists.
ResolveNext_AnyKnown(steps, payload, method) ==
  LET previousMethodIndex == IndexOf(steps, payload.from)
      chosen == IF Falsy(method) THEN At(steps, previousMethodIndex + 1) ELSE method
      currentMethodIndex == IndexOf(steps, chosen)
  IN IF payload.final
     THEN [err |-> FinalTokenError, method |-> method, payload |-> payload]
     ELSE IF previousMethodIndex < 0
     THEN [err |-> InvalidStepError, method |-> method, payload |-> payload]
     ELSE IF currentMethodIndex < 0
     THEN [err |-> InvalidMethodError, method |-> chosen, payload |-> payload]
     ELSE [err |-> NoError, method |-> chosen, payload |-> payload]

\* ResolveNext without the check of lines 114-116.
ResolveNext_FinalUnchecked(steps, payload, method) ==
  LET previousMethodIndex == IndexOf(steps, payload.from)
      chosen == IF Falsy(method) THEN At(steps, previousMethodIndex + 1) ELSE method
      currentMethodIndex == IndexOf(steps, chosen)
  IN IF previousMethodIndex < 0
     THEN [err |-> InvalidStepError, method |-> method, payload |-> payload]
     ELSE IF currentMethodIndex < 0 \/ currentMethodIndex # previousMethodIndex + 1
     THEN [err |-> InvalidMethodError, method |-> chosen, payload |-> payload]
     ELSE [err |-> NoError, method |-> chosen, payload |-> payload]

\* ResolveNext without the check of lines 120-122: a step that is not
\* configured reads as the position before the first.
ResolveNext_StepUnchecked(steps, payload, method) ==
  LET previousMethodIndex == IndexOf(steps, payload.from)
      chosen == IF Falsy(method) THEN At(steps, previousMethodIndex + 1) ELSE method
      currentMethodIndex == IndexOf(steps, chosen)
  IN IF payload.final
     THEN [err |-> FinalTokenError, method |-> method, payload |-> payload]
     ELSE IF currentMethodIndex < 0 \/ currentMethodIndex # previousMethodIndex + 1
     THEN [err |-> InvalidMethodError, method |-> chosen, payload |-> payload]
     ELSE [err |-> NoError, method |-> chosen, payload |-> payload]

\* _verifyPreviousToken, lines 110-130: the method that follows the step the
\* previous token comes from. method in the result is the value of the local
\* variable when the function returns or throws.
ResolveNext(steps, payload, method) ==
  LET previousMethodIndex == IndexOf(steps, payload.from)
      chosen == IF Falsy(method) THEN At(steps, previousMethodIndex + 1) ELSE method
      currentMethodIndex == IndexOf(steps, chosen)
  IN IF payload.final
     THEN [err |-> FinalTokenError, method |-> method, payload |-> payload]
     ELSE IF previousMethodIndex < 0
     THEN [err |-> InvalidStepError, method |-> method, payload |-> payload]
     ELSE IF currentMethodIndex < 0 \/ currentMethodIndex # previousMethodIndex + 1
     THEN [err |-> InvalidMethodError, method |-> chosen, payload |-> payload]
     ELSE [err |-> NoError, method |-> chosen, payload |-> payload]

\* ResolveFirst with line 137 reading currentMethodIndex < 0.
ResolveFirst_AnyKnown(steps, method) ==
  LET chosen == IF Falsy(method) THEN At(steps, 0) ELSE method
      currentMethodIndex == IndexOf(steps, chosen)
  IN IF currentMethodIndex < 0
     THEN [err |-> InvalidMethodError, method |-> chosen, payload |-> NullPayload]
     ELSE [err |-> NoError, method |-> chosen, payload |-> NullPayload]

\* _verifyPreviousToken, lines 131-140: the first method.
ResolveFirst(steps, method) ==
  LET chosen == IF Falsy(method) THEN At(steps, 0) ELSE method
      currentMethodIndex == IndexOf(steps, chosen)
  IN IF currentMethodIndex # 0
     THEN [err |-> InvalidMethodError, method |-> chosen, payload |-> NullPayload]
     ELSE [err |-> NoError, method |-> chosen, payload |-> NullPayload]

\* _verifyPreviousToken as a whole.
VerifyPreviousToken(steps, previousToken, subjectID, method, t) ==
  LET verification == VerifyToken(previousToken, subjectID, t)
  IN IF verification.err # NoError
     THEN [err |-> verification.err, method |-> method, payload |-> NullPayload]
     ELSE IF verification.payload # NullPayload
     THEN ResolveNext(steps, verification.payload, method)
     ELSE ResolveFirst(steps, method)

\* CurrentMethodIsFinal with line 167 comparing to authSteps.length.
CurrentMethodIsFinal_OffByOne(steps, method) == IndexOf(steps, method) = Len(steps)

\* getToken, lines 166-167.
CurrentMethodIsFinal(steps, method) == IndexOf(steps, method) = Len(steps) - 1

\* TokenClaims with final left out of the claims (it then reads as false).
TokenClaims_NoFinal(method, final) == [from |-> method, final |-> FALSE]

\* _getTokenForSecret, lines 73-76: the claims of the token that is signed.
TokenClaims(method, final) == [from |-> method, final |-> final]

\* getToken, line 177.
NextOf(steps, method) ==
  IF CurrentMethodIsFinal(steps, method)
  THEN JNull
  ELSE JArray(<<At(steps, IndexOf(steps, method) + 1)>>)

(* ------------------------------ AuthResult ---------------------------- *)
\* String(token): a string (and a signed token, which is one) is itself.
StringOf(token) ==
  IF token = JUndefined THEN JString("undefined")
  ELSE IF token = JNull THEN JString("null")
  ELSE token

\* !token, after token = String(token).
TokenIsEmpty(token) == StringOf(token) = JString("")

\* Boolean(final), after the parameter default final = true.
BooleanOfFinal(final) ==
  IF final = JUndefined THEN TRUE
  ELSE IF final.t = "boolean" THEN final.v
  ELSE final \notin {JNull, JString("")}

\* !next || !Array.isArray(next) || next.length === 0, after the default next = null.
NextIsMissing(next) ==
  \/ next \in {JNull, JUndefined, JString("")}
  \/ next.t # "array"
  \/ Len(next.v) = 0

\* The guard of the constructor's throw.
AuthResultThrows(token, final, next) ==
  TokenIsEmpty(token) \/ (~BooleanOfFinal(final) /\ NextIsMissing(next))

\* The frozen object the constructor leaves when it does not throw.
AuthResult(token, final, next) ==
  [token |-> StringOf(token), final |-> BooleanOfFinal(final),
   next |-> IF next = JUndefined THEN JNull ELSE next]

(* ------------------------------ backends ------------------------------ *)
\* passwordBackend.authenticate
PasswordAccepts(subjectID, secret) ==
  /\ ~Falsy(passwords[subjectID])
  /\ ~Falsy(secret)
  /\ passwords[subjectID] = secret

\* dateBackend.authenticate: the secret parses to an instant of the current day.
DateAccepts(subjectID, secret) == secret = "today"

\* CodeBackend.authenticate, the condition of line 67.
CodeAccepts(codes, subjectID, secret) ==
  /\ ~Falsy(codes[subjectID])
  /\ codes[subjectID] = secret

BackendAccepts(method, codes, subjectID, secret) ==
  CASE method = "password" -> PasswordAccepts(subjectID, secret)
    [] method = "date" -> DateAccepts(subjectID, secret)
    [] method = "code" -> CodeAccepts(codes, subjectID, secret)
    [] OTHER -> FALSE

BackendError(method) ==
  CASE method = "password" -> "Invalid password or no such user"
    [] method = "date" -> "Invalid time value"
    [] method = "code" -> "Invalid code"
    [] OTHER -> "TypeError"

BackendErrors == {"Invalid password or no such user", "Invalid time value", "Invalid code"}

\* uuid.v4(): the n-th code drawn; no two draws give the same code.
CodeName(n) == "code-" \o ToString(n)

\* CodeBackend.authenticate with line 68 left out: the accepted code stays.
CodesAfterAuthenticate_Kept(codes, subjectID, ok) == codes

\* CodeBackend.authenticate with line 68 moved above the condition: the
\* pending code is dropped by every attempt.
CodesAfterAuthenticate_Always(codes, subjectID, ok) ==
  [codes EXCEPT ![subjectID] = Undefined]

\* CodeBackend.authenticate, lines 67-69: the accepted code is deleted.
CodesAfterAuthenticate(codes, subjectID, ok) ==
  IF ok THEN [codes EXCEPT ![subjectID] = Undefined] ELSE codes

\* CodeBackend.requestChallenge with a code drawn on every call.
CodeToDeliver_AlwaysFresh(codes, subjectID, n) == CodeName(n)

\* CodeBackend.requestChallenge, lines 50-56: the pending code of the subject,
\* or a fresh one when the map has none.
CodeToDeliver(codes, subjectID, n) ==
  IF codes[subjectID] # Undefined THEN codes[subjectID] ELSE CodeName(n)

\* CodeBackend.requestChallenge with line 55 left out.
CodesAfterChallenge_NotRecorded(codes, subjectID, code) == codes

\* CodeBackend.requestChallenge, line 55: the map when the callback runs.
CodesAfterChallenge(codes, subjectID, code) == [codes EXCEPT ![subjectID] = code]

(* ------------------------------- state -------------------------------- *)
\* The calls in flight: a client that awaits each call before the next has one;
\* a second slot is there for clients that do not.
Slots == {1, 2}
Calls == {1}

NoResult == [t |-> "none"]

IdleCall ==
  [op |-> "idle", pc |-> "idle", subjectID |-> Null, secret |-> Null,
   previousToken |-> NullToken, method |-> Null,
   resolution |-> [err |-> NoError, method |-> Null, payload |-> NullPayload],
   err |-> NoError, token |-> NullToken, result |-> NoResult, log |-> <<>>,
   failedBefore |-> 0, startedIn |-> 0]

NoCtor == [token |-> JNull, final |-> JNull, next |-> JNull, thrown |-> FALSE, object |-> NoResult]

\* The step sequences an orchestrator is configured with: unique method names.
AuthStepsChoices ==
  {<<"password">>, <<"code">>, <<"password", "date">>, <<"date", "code">>,
   <<"password", "date", "code">>}

Init ==
  /\ authSteps \in AuthStepsChoices
  /\ now = 0
  /\ calls = [c \in Slots |-> IdleCall]
  /\ minted = {}
  /\ userCodes = [s \in Subjects |-> Undefined]
  /\ nextCode = 1
  /\ delivered = {}
  /\ started = 0
  /\ ctor = NoCtor
  /\ consumed = {}
  /\ progress = [s \in Subjects |-> 0]

(* ------------------------------- inputs ------------------------------- *)
MintedTokens == {m.token : m \in minted}

\* Tokens a caller can present that the orchestrator never returned: one
\* signed with another key, and the orchestrator's own with the subject
\* rewritten and final cleared after signing.
ForgedTokens ==
  {JWTSign(TokenClaims("password", FALSE), OtherKey, "user1", 0)}
  \cup {[tok EXCEPT !.payload.sub = CHOOSE s \in Subjects : s # tok.payload.sub,
                     !.payload.final = FALSE] : tok \in MintedTokens}

\* Tokens signed with the orchestrator's key by deployments with another step
\* list: a one-step deployment's final token, and a token from a method that
\* no step list here has.
LegacyTokens ==
  {JWTSign(TokenClaims("password", TRUE), tokenKey, "user1", 0),
   JWTSign(TokenClaims("sms", FALSE), tokenKey, "user1", 0)}

TokenInputs == {NullToken} \cup MintedTokens \cup ForgedTokens \cup LegacyTokens

\* No method, the empty name (which reads as no method), and the method names.
MethodInputs == {Null, ""} \cup Methods

SecretInputs == {"password1", "badPassword", "today"} \cup delivered

(* ------------------------------- actions ------------------------------ *)
\* AfterVerify with the callbacks of lines 165 and 197 also given as rejection
\* handlers.
AfterVerify_Always(resolution) == "resolved"

\* What the call does after _verifyPreviousToken settled: the callbacks of
\* lines 165 and 197 run when it resolved, and are skipped when it rejected.
AfterVerify(resolution) == IF resolution.err = NoError THEN "resolved" ELSE "failed"

\* getToken / requestChallenge is called: the previous token is verified and
\* the method resolved (lines 94-146); the rest of the call is pending.
\* The call starts: the previous token is verified and the method resolved
\* (lines 94-146) before getToken / requestChallenge returns its promise; the
\* rest of the call is pending. failedBefore counts the calls with the same
\* arguments but the secret that a backend rejected just before this one.
NewCall(op, subjectID, secret, previousToken, method) ==
  LET resolution == VerifyPreviousToken(authSteps, previousToken, subjectID, method, now)
  IN [IdleCall EXCEPT !.op = op, !.subjectID = subjectID, !.secret = secret,
                      !.previousToken = previousToken, !.method = method,
                      !.resolution = resolution,
                      !.pc = AfterVerify(resolution),
                      !.err = resolution.err]

Start(c, op, subjectID, secret, previousToken, method, failedBefore) ==
  /\ started < MaxCalls
  /\ started' = started + 1
  /\ calls' = [calls EXCEPT ![c] =
       [NewCall(op, subjectID, secret, previousToken, method)
          EXCEPT !.failedBefore = failedBefore]]
  /\ UNCHANGED <<authSteps, now, minted, userCodes, nextCode, delivered, ctor,
                 consumed, progress>>

\* getToken / requestChallenge is called.
Call(c, op, subjectID, secret, previousToken, method) ==
  /\ calls[c].pc = "idle"
  /\ Start(c, op, subjectID, secret, previousToken, method, 0)

GetToken(c) ==
  \E subjectID \in Subjects, secret \in SecretInputs,
     previousToken \in TokenInputs, method \in MethodInputs :
    Call(c, "getToken", subjectID, secret, previousToken, method)

RequestChallenge(c) ==
  \E subjectID \in Subjects, previousToken \in TokenInputs, method \in MethodInputs :
    Call(c, "requestChallenge", subjectID, Null, previousToken, method)

\* The caller whose getToken a backend rejected calls getToken again for the
\* same step: the same subjectID, previousToken and method, and a secret.
Retry(c) ==
  /\ calls[c].op = "getToken"
  /\ calls[c].pc = "failed"
  /\ calls[c].err \in BackendErrors
  /\ \E secret \in SecretInputs :
       Start(c, "getToken", calls[c].subjectID, secret, calls[c].previousToken,
             calls[c].method, calls[c].failedBefore + 1)

\* AfterAuthenticate with the token signed whatever authenticate settled with.
AfterAuthenticate_Ignored(outcome) == [pc |-> "authenticated", err |-> NoError]

\* AfterAuthenticate with a rejected authenticate tried again.
AfterAuthenticate_Retry(outcome) ==
  IF outcome = NoError
  THEN [pc |-> "authenticated", err |-> NoError]
  ELSE [pc |-> "resolved", err |-> NoError]

\* AfterAuthenticate with the backend's error replaced by AuthenticationFailed.
AfterAuthenticate_Wrapped(outcome) ==
  IF outcome = NoError
  THEN [pc |-> "authenticated", err |-> NoError]
  ELSE [pc |-> "failed", err |-> "Authentication failed"]

\* _getTokenForSecret, line 72: the token is signed when authenticate resolved;
\* its rejection is the rejection of the call.
AfterAuthenticate(outcome) ==
  IF outcome = NoError
  THEN [pc |-> "authenticated", err |-> NoError]
  ELSE [pc |-> "failed", err |-> outcome]

\* The histories after authenticate settled for a call: the accepted code is
\* spent, and the subject has got one step further if this is the step that
\* follows the ones accepted so far.
ConsumedAfter(call, method, ok) ==
  IF ok /\ method = "code"
  THEN consumed \cup {[subjectID |-> call.subjectID, code |-> call.secret]}
  ELSE consumed

ProgressAfter(call, method, ok) ==
  LET j == IndexOf(authSteps, method)
  IN IF ok /\ j >= 0 /\ progress[call.subjectID] >= j /\ progress[call.subjectID] < j + 1
     THEN [progress EXCEPT ![call.subjectID] = j + 1]
     ELSE progress

\* _getTokenForSecret, lines 71-72: the backend of the resolved method is
\* asked to authenticate; CodeBackend forgets the code it accepts.
Authenticate(c) ==
  LET call == calls[c]
      method == call.resolution.method
      ok == BackendAccepts(method, userCodes, call.subjectID, call.secret)
      outcome == IF ok THEN NoError ELSE BackendError(method)
  IN /\ call.pc = "resolved"
     /\ call.op = "getToken"
     /\ calls' = [calls EXCEPT
          ![c].log = Append(@, [method |-> method, fn |-> "authenticate",
                                subjectID |-> call.subjectID, secret |-> call.secret,
                                pending |-> userCodes[call.subjectID],
                                spent |-> [subjectID |-> call.subjectID,
                                           code |-> call.secret] \in consumed,
                                outcome |-> outcome]),
          ![c].pc = AfterAuthenticate(outcome).pc,
          ![c].err = AfterAuthenticate(outcome).err]
     /\ userCodes' = IF method = "code"
                     THEN CodesAfterAuthenticate(userCodes, call.subjectID, ok)
                     ELSE userCodes
     /\ consumed' = ConsumedAfter(call, method, ok)
     /\ progress' = ProgressAfter(call, method, ok)
     /\ UNCHANGED <<authSteps, now, minted, nextCode, delivered, started, ctor>>

\* The lengths of the chains of successful calls that end in a call presenting
\* previousToken: one more than those of the calls that minted previousToken,
\* and 1 for a call that presented none or one the orchestrator never minted.
ChainDepths(previousToken) ==
  IF previousToken \notin MintedTokens THEN {1}
  ELSE {m.depth + 1 : m \in {x \in minted : x.token = previousToken}}

\* _getTokenForSecret, lines 73-80, and getToken, lines 173-178: the token is
\* signed and the AuthResult built.
Sign(c) ==
  LET call == calls[c]
      method == call.resolution.method
      final == CurrentMethodIsFinal(authSteps, method)
      token == JWTSign(TokenClaims(method, final), tokenKey, call.subjectID, now)
      next == NextOf(authSteps, method)
  IN /\ call.pc = "authenticated"
     /\ calls' = [calls EXCEPT
          ![c].pc = IF AuthResultThrows(token, JBool(final), next) THEN "failed" ELSE "done",
          ![c].err = IF AuthResultThrows(token, JBool(final), next)
                     THEN "Invalid AuthResult data passed to the constructor" ELSE NoError,
          ![c].token = token,
          ![c].result = IF AuthResultThrows(token, JBool(final), next)
                        THEN NoResult ELSE AuthResult(token, JBool(final), next)]
     /\ minted' = minted \cup
          {[token |-> token, previousToken |-> call.previousToken, depth |-> d] :
             d \in ChainDepths(call.previousToken)}
     /\ UNCHANGED <<authSteps, now, userCodes, nextCode, delivered, started, ctor, consumed, progress>>

\* AuthChallenge's constructor: method = String(method), sent = Boolean(sent).
AuthChallenge(content, method, sent) ==
  [content |-> content, method |-> IF method = Undefined THEN "undefined" ELSE method,
   sent |-> sent]

\* ChallengeBackend with the backend of the first step asked whatever the
\* method resolved.
ChallengeBackend_FirstStep(steps, resolution) == At(steps, 0)

\* requestChallenge, lines 197-198: backends[chosenMethod].
ChallengeBackend(steps, resolution) == resolution.method

\* requestChallenge, line 198: what the backend's promise fulfils with is
\* what the call's promise fulfils with.
ChallengeResult(returned) == returned

\* requestChallenge, line 198, on CodeBackend (lines 49-63), up to the code
\* callback: the code to deliver is the pending code of the subject, or a
\* fresh one, which is recorded.
ChallengeCodeRecorded(c) ==
  LET call == calls[c]
      code == CodeToDeliver(userCodes, call.subjectID, nextCode)
  IN /\ call.pc = "resolved"
     /\ call.op = "requestChallenge"
     /\ ChallengeBackend(authSteps, call.resolution) = "code"
     /\ code = CodeName(nextCode) => nextCode <= MaxCodes
     /\ userCodes' = CodesAfterChallenge(userCodes, call.subjectID, code)
     /\ nextCode' = IF code = CodeName(nextCode) THEN nextCode + 1 ELSE nextCode

\* The call after CodeBackend.requestChallenge returned (lines 59-62):
\* recorded is the subject's entry of the map as the callback finds it.
Challenged(call) ==
  LET code == CodeToDeliver(userCodes, call.subjectID, nextCode)
      returned == AuthChallenge(JNull, Undefined, TRUE)
  IN [call EXCEPT
        !.log = Append(@, [method |-> ChallengeBackend(authSteps, call.resolution),
                           fn |-> "requestChallenge",
                           subjectID |-> call.subjectID, secret |-> Null,
                           pending |-> userCodes[call.subjectID],
                           spent |-> [subjectID |-> call.subjectID,
                                      code |-> code] \in consumed,
                           outcome |-> NoError,
                           code |-> code,
                           recorded |-> CodesAfterChallenge(userCodes, call.subjectID,
                                                            code)[call.subjectID],
                           returned |-> returned]),
        !.pc = "done",
        !.result = ChallengeResult(returned)]

\* requestChallenge on CodeBackend with a code callback that keeps the code
\* for the subject to type in.
ChallengeCode(c) ==
  /\ ChallengeCodeRecorded(c)
  /\ delivered' = delivered \cup {CodeToDeliver(userCodes, calls[c].subjectID, nextCode)}
  /\ calls' = [calls EXCEPT ![c] = Challenged(calls[c])]
  /\ UNCHANGED <<authSteps, now, minted, started, ctor, consumed, progress>>

\* requestChallenge on CodeBackend with the code callback of the test (lines
\* 174-176): the callback calls getToken({ subjectID, secret: code }) before
\* CodeBackend.requestChallenge has returned; that call, d, verifies and
\* resolves at once and is pending when the callback returns.
ChallengeCodeReentrant(c, d) ==
  LET code == CodeToDeliver(userCodes, calls[c].subjectID, nextCode)
  IN /\ ChallengeCodeRecorded(c)
     /\ d # c
     /\ calls[d].pc = "idle"
     /\ started < MaxCalls
     /\ started' = started + 1
     /\ calls' = [calls EXCEPT
          ![c] = Challenged(calls[c]),
          ![d] = [NewCall("getToken", calls[c].subjectID, code, NullToken, Null)
                    EXCEPT !.startedIn = c]]
     /\ UNCHANGED <<authSteps, now, minted, delivered, ctor, consumed, progress>>

\* ChallengeUnsupportedOutcome with the missing function skipped over.
ChallengeUnsupportedOutcome_Silent == [pc |-> "done", err |-> NoError]

\* requestChallenge, line 198, on a backend that has no requestChallenge:
\* calling undefined throws a TypeError inside the promise callback, which
\* rejects the call's promise.
ChallengeUnsupportedOutcome == [pc |-> "failed", err |-> "TypeError"]

ChallengeUnsupported(c) ==
  LET call == calls[c]
      method == ChallengeBackend(authSteps, call.resolution)
  IN /\ call.pc = "resolved"
     /\ call.op = "requestChallenge"
     /\ method # "code"
     /\ calls' = [calls EXCEPT ![c].pc = ChallengeUnsupportedOutcome.pc,
                               ![c].err = ChallengeUnsupportedOutcome.err]
     /\ UNCHANGED <<authSteps, now, minted, userCodes, nextCode, delivered, started, ctor,
                    consumed, progress>>

\* The caller has taken the outcome of a settled call.
Release(c) ==
  /\ calls[c].pc \in {"done", "failed"}
  /\ calls' = [calls EXCEPT ![c] = IdleCall]
  /\ UNCHANGED <<authSteps, now, minted, userCodes, nextCode, delivered, started, ctor, consumed, progress>>

\* Time passes: the clock is read in steps of the tokens' lifetime.
Tick ==
  /\ now + ExpiresIn <= MaxTicks * ExpiresIn
  /\ now' = now + ExpiresIn
  /\ UNCHANGED <<authSteps, calls, minted, userCodes, nextCode, delivered, started, ctor, consumed, progress>>

Next ==
  \/ \E c \in Calls : GetToken(c)
  \/ \E c \in Calls : RequestChallenge(c)
  \/ \E c \in Calls : Retry(c)
  \/ \E c \in Calls : Authenticate(c)
  \/ \E c \in Calls : Sign(c)
  \/ \E c \in Calls : ChallengeCode(c)
  \/ \E c \in Calls : ChallengeUnsupported(c)
  \/ \E c \in Calls : Release(c)
  \/ Tick

Spec == Init /\ [][Next]_vars

(* ------------------------- calls that overlap -------------------------- *)
\* The tokens a caller that follows the flow presents: none, or one the
\* orchestrator returned.
FlowTokens == {NullToken} \cup MintedTokens

\* The secrets such a caller brings: the password of the test's user, the
\* current date, the codes delivered.
FlowSecrets == {"password1", "today"} \cup delivered

GetTokenInFlow(c) ==
  \E subjectID \in Subjects, secret \in FlowSecrets, previousToken \in FlowTokens :
    Call(c, "getToken", subjectID, secret, previousToken, Null)

RequestChallengeInFlow(c) ==
  \E subjectID \in Subjects, previousToken \in FlowTokens :
    Call(c, "requestChallenge", subjectID, Null, previousToken, Null)

\* Two calls may be in flight: each promise callback of one may run before or
\* after each of the other's.
NextConcurrent ==
  \/ \E c \in Slots : GetTokenInFlow(c)
  \/ \E c \in Slots : RequestChallengeInFlow(c)
  \/ \E c \in Slots : Authenticate(c)
  \/ \E c \in Slots : Sign(c)
  \/ \E c \in Slots : ChallengeCode(c)
  \/ \E c, d \in Slots : ChallengeCodeReentrant(c, d)
  \/ \E c \in Slots : ChallengeUnsupported(c)
  \/ \E c \in Slots : Release(c)
  \/ Tick

SpecConcurrent == Init /\ [][NextConcurrent]_vars

(* --------------------- AuthResult's constructor alone ------------------ *)
\* The arguments new AuthResult({token, final, next}) is tried with.
CtorTokens ==
  {JUndefined, JNull, JString(""), JString("token"),
   JWTSign(TokenClaims("password", TRUE), tokenKey, "user1", 0)}

CtorFinals == {JUndefined, JNull, JBool(TRUE), JBool(FALSE)}

CtorNexts ==
  {JUndefined, JNull, JString("date"), JArray(<<>>), JArray(<<"date">>),
   JArray(<<"date", "code">>)}

\* new AuthResult({token, final, next}): it throws or leaves the frozen object.
NewAuthResult(token, final, next) ==
  /\ ctor' = [token |-> token, final |-> final, next |-> next,
              thrown |-> AuthResultThrows(token, final, next),
              object |-> IF AuthResultThrows(token, final, next)
                         THEN NoResult ELSE AuthResult(token, final, next)]
  /\ UNCHANGED <<authSteps, now, calls, minted, userCodes, nextCode, delivered, started,
               consumed, progress>>

NextAuthResult ==
  \E token \in CtorTokens, final \in CtorFinals, next \in CtorNexts :
    NewAuthResult(token, final, next)

SpecAuthResult == Init /\ [][NextAuthResult]_vars

(* ------------------------------- claims ------------------------------- *)
\* The call left no trace: no backend was asked, no token signed, no result.
Untouched(call) == call.log = <<>> /\ call.token = NullToken /\ call.result = NoResult

\* The 1-based position of a method of the step sequence.
Position(method) == CHOOSE i \in 1..Len(authSteps) : authSteps[i] = method

\* C1: a final token comes out of a chain of exactly N successful getToken
\* calls of one subject, N the number of configured steps: the first call
\* presents no token, every later one the token of the call before it; a
\* shorter chain ends in a token that is not final, a chain of N in a final one.
C1_FinalAfterExactlyNCalls ==
  /\ \A m \in minted :
       /\ m.depth \in 1..Len(authSteps)
       /\ m.token.payload.final <=> (m.depth = Len(authSteps))
       /\ (m.depth = 1) <=> (m.previousToken = NullToken)
       /\ m.previousToken # NullToken =>
            \E p \in minted : /\ p.token = m.previousToken
                              /\ p.depth + 1 = m.depth
                              /\ p.token.payload.sub = m.token.payload.sub
  /\ \A c \in Slots :
       (calls[c].op = "getToken" /\ calls[c].pc = "done") =>
         \E m \in minted : /\ m.token = calls[c].result.token
                           /\ m.previousToken = calls[c].previousToken
                           /\ calls[c].result.final <=> (m.depth = Len(authSteps))

C1_Witness ==
  /\ Len(authSteps) = 3
  /\ \E c \in Slots :
       /\ calls[c].op = "getToken" /\ calls[c].pc = "done" /\ calls[c].result.final
       /\ \E m \in minted : m.token = calls[c].result.token /\ m.depth = 3

\* C2: a call that presents an intermediate token the orchestrator minted at
\* step i and names a method whose index is not i+1 fails, whatever the secret.
C2_WrongStepFails ==
  \A c \in Slots :
    LET call == calls[c] IN
      (/\ call.op # "idle"
       /\ call.previousToken \in MintedTokens
       /\ ~call.previousToken.payload.final
       /\ ~Falsy(call.method)
       /\ IndexOf(authSteps, call.method)
            # IndexOf(authSteps, call.previousToken.payload.from) + 1)
      => (call.pc = "failed" /\ Untouched(call))

\* A verified token of step 0 presented with the method of step 2.
C2_Witness ==
  \E c \in Slots :
    LET call == calls[c] IN
      /\ call.op = "getToken" /\ call.pc = "failed"
      /\ call.previousToken \in MintedTokens
      /\ call.err = InvalidMethodError
      /\ IndexOf(authSteps, call.previousToken.payload.from) = 0
      /\ IndexOf(authSteps, call.method) = 2

\* C3: a call that presents a token whose final claim is true fails, whatever
\* method and secret it names.
C3_FinalTokenFails ==
  \A c \in Slots :
    LET call == calls[c] IN
      (call.op # "idle" /\ call.previousToken # NullToken /\ call.previousToken.payload.final)
      => (call.pc = "failed" /\ Untouched(call))

\* A final token that verifies, presented with the method that follows its step.
C3_Witness ==
  \E c \in Slots :
    LET call == calls[c] IN
      /\ call.op = "getToken" /\ call.pc = "failed"
      /\ call.err = FinalTokenError
      /\ call.secret = "today"
      /\ IndexOf(authSteps, call.method)
           = IndexOf(authSteps, call.previousToken.payload.from) + 1

\* C4: without a previous token a call that names a method other than the
\* first step fails, also with a secret that method accepts; without a method
\* the first step is resolved.
C4_FirstStepOnly ==
  \A c \in Slots :
    LET call == calls[c] IN
      (call.op # "idle" /\ call.previousToken = NullToken) =>
        /\ (~Falsy(call.method) /\ call.method # authSteps[1])
             => (call.pc = "failed" /\ Untouched(call))
        /\ Falsy(call.method)
             => (call.resolution.err = NoError /\ call.resolution.method = authSteps[1])

\* The second step asked for first, with a secret it accepts.
C4_Witness ==
  \E c \in Slots :
    LET call == calls[c] IN
      /\ call.op = "getToken" /\ call.pc = "failed"
      /\ call.previousToken = NullToken
      /\ call.method = "date" /\ IndexOf(authSteps, "date") = 1
      /\ DateAccepts(call.subjectID, call.secret)

\* C5: a call whose method resolution failed has asked no backend for anything.
C5_NoBackendOnFailedResolution ==
  \A c \in Slots :
    LET call == calls[c] IN
      (call.op # "idle" /\ call.resolution.err # NoError)
      => (call.pc = "failed" /\ call.log = <<>> /\ call.err = call.resolution.err)

\* Each kind of failed resolution is met with a secret the first backend accepts.
C5_Witness ==
  \E c \in Slots :
    LET call == calls[c] IN
      /\ call.op = "getToken" /\ call.pc = "failed"
      /\ call.resolution.err = InvalidStepError
      /\ BackendAccepts(authSteps[1], userCodes, call.subjectID, call.secret)

\* C6: when the backend's authenticate fails, getToken fails with the
\* backend's failure, and neither a token nor an AuthResult comes out.
C6_BackendFailurePropagates ==
  \A c \in Slots :
    LET call == calls[c] IN
      \A i \in 1..Len(call.log) :
        (call.log[i].fn = "authenticate" /\ call.log[i].outcome # NoError) =>
          /\ call.pc = "failed"
          /\ call.err = call.log[i].outcome
          /\ call.err = BackendError(call.resolution.method)
          /\ call.token = NullToken
          /\ call.result = NoResult

C6_Witness ==
  \E c \in Slots :
    LET call == calls[c] IN
      /\ call.op = "getToken" /\ call.pc = "failed"
      /\ call.secret = "badPassword"
      /\ call.err = "Invalid password or no such user"
      /\ Len(call.log) = 1

\* C7: the token a successful getToken returns verifies under the key and the
\* subject of the call, and decodes to from = the method authenticated,
\* final = the final of the AuthResult, subject = the subject of the call.
C7_TokenRoundTrip ==
  \A c \in Slots :
    LET call == calls[c]
        decoded == JWTVerify(call.result.token, tokenKey, call.subjectID,
                             call.result.token.payload.iat)
    IN (call.op = "getToken" /\ call.pc = "done") =>
         /\ decoded.err = NoError
         /\ Len(call.log) = 1
         /\ decoded.payload.from = call.log[1].method
         /\ decoded.payload.final = call.result.final
         /\ decoded.payload.sub = call.subjectID

C7_Witness ==
  \E c \in Slots :
    LET call == calls[c] IN
      /\ call.op = "getToken" /\ call.pc = "done"
      /\ call.result.final
      /\ call.previousToken # NullToken
      /\ call.result.token.payload.from = "code"
      /\ call.subjectID = "user2"

\* C8: an AuthResult of getToken is final exactly when the method
\* authenticated is the last step; a final one has next = null, any other has
\* next = the list of the one step after the method authenticated.
C8_FinalAndNext ==
  \A c \in Slots :
    LET call == calls[c] IN
      (call.op = "getToken" /\ call.pc = "done") =>
        LET method == call.log[1].method IN
          /\ method \in {authSteps[i] : i \in 1..Len(authSteps)}
          /\ call.result.final <=> (Position(method) = Len(authSteps))
          /\ call.result.final => call.result.next = JNull
          /\ ~call.result.final =>
               call.result.next = JArray(<<authSteps[Position(method) + 1]>>)

C8_Witness ==
  \E c \in Slots :
    LET call == calls[c] IN
      /\ call.op = "getToken" /\ call.pc = "done"
      /\ ~call.result.final
      /\ call.previousToken # NullToken
      /\ call.result.next = JArray(<<"code">>)

\* C9: the constructor of AuthResult fails when the token is empty, when final
\* is true and next is not null, and when final is false and next is null, is
\* no list or is an empty list; so an AuthResult that exists has final = true
\* exactly when its next is null.
C9_ConstructorEnforcesInvariant ==
  LET final == ctor.final \in {JUndefined, JBool(TRUE)}
      nextIsNull == ctor.next \in {JUndefined, JNull}
      nextIsList == ctor.next.t = "array" /\ Len(ctor.next.v) > 0
  IN ctor # NoCtor =>
       /\ ctor.token = JString("") => ctor.thrown
       /\ (final /\ ~nextIsNull) => ctor.thrown
       /\ (~final /\ ~nextIsList) => ctor.thrown
       /\ ~ctor.thrown => (ctor.object.final <=> (ctor.object.next = JNull))

\* C10: a call that presents a token minted for another subject fails and asks
\* no backend; every token minted from a previous token has that token's subject.
C10_SubjectBinding ==
  /\ \A c \in Slots :
       LET call == calls[c] IN
         (/\ call.op # "idle"
          /\ call.previousToken \in MintedTokens
          /\ call.previousToken.payload.sub # call.subjectID)
         => (call.pc = "failed" /\ Untouched(call))
  /\ \A m \in minted :
       m.previousToken # NullToken =>
         m.previousToken.payload.sub = m.token.payload.sub

\* user1's unexpired intermediate token presented by user2 to the date step,
\* with a secret the date step accepts.
C10_Witness ==
  \E c \in Slots :
    LET call == calls[c] IN
      /\ call.op = "getToken" /\ call.pc = "failed"
      /\ call.err = "jwt subject invalid"
      /\ call.previousToken \in MintedTokens
      /\ call.previousToken.payload.sub = "user1"
      /\ call.subjectID = "user2"
      /\ ~call.previousToken.payload.final
      /\ authSteps[Position(call.previousToken.payload.from) + 1] = "date"
      /\ DateAccepts(call.subjectID, call.secret)

\* The entry of the log of a call that asked a backend.
Asked(call) == call.log[1]

\* C11: a getToken that brings the code backend the subject's pending code is
\* accepted and goes on to a token, and the code is then no longer pending; a
\* getToken that brings a code the backend has accepted before for the subject
\* is rejected with the backend's error and mints nothing, whether or not a
\* new challenge was issued in between.
C11_CodeSingleUse ==
  \A c \in Slots :
    LET call == calls[c]
    IN (call.op = "getToken" /\ call.log # <<>> /\ Asked(call).method = "code") =>
         /\ Asked(call).pending = call.secret =>
              /\ Asked(call).outcome = NoError
              /\ call.pc \in {"authenticated", "done"}
              /\ call.pc = "done" => call.result.token = call.token
              /\ [subjectID |-> call.subjectID, code |-> call.secret] \in consumed
              /\ userCodes[call.subjectID] # call.secret
         /\ Asked(call).spent =>
              /\ Asked(call).outcome = "Invalid code"
              /\ call.pc = "failed"
              /\ call.err = "Invalid code"
              /\ call.token = NullToken
              /\ call.result = NoResult

\* A code that was accepted once is rejected while a newer code is pending.
C11_Witness ==
  \E c \in Slots :
    /\ calls[c].op = "getToken"
    /\ calls[c].pc = "failed"
    /\ calls[c].log # <<>>
    /\ Asked(calls[c]).method = "code"
    /\ Asked(calls[c]).spent
    /\ Asked(calls[c]).pending # Undefined
    /\ calls[c].secret \in delivered

\* The step a call is for: the first one when it presents no token, else the
\* one after the step its token comes from (Undefined when there is none).
StepOf(call) ==
  IF call.previousToken = NullToken THEN authSteps[1]
  ELSE IF \E i \in 1..(Len(authSteps) - 1) : authSteps[i] = call.previousToken.payload.from
  THEN authSteps[Position(call.previousToken.payload.from) + 1]
  ELSE Undefined

\* The sequencing rule of a call whose previous token, if any, verified: the
\* token is not final and comes from a step that has a successor, and the
\* method asked for, if any, is the step the call is for.
RuleAccepts(call) ==
  /\ call.previousToken # NullToken => ~call.previousToken.payload.final
  /\ StepOf(call) # Undefined
  /\ call.method \in {Null, "", StepOf(call)}

\* C12: requestChallenge resolves its method by the rule getToken resolves it
\* by: a call of either kind whose previous token verified goes on exactly when
\* the sequencing rule accepts it, and then with the step the rule gives. A
\* requestChallenge whose resolution failed asks no backend; one that resolved
\* to the code backend asks that backend's requestChallenge, with the call's
\* subjectID, and fulfils with what the backend returned; no requestChallenge
\* call signs a token.
C12_ChallengeDelegates ==
  \A c \in Slots :
    LET call == calls[c]
    IN /\ (call.op \in {"getToken", "requestChallenge"}
            /\ call.resolution.err \notin VerifyErrors) =>
             /\ call.resolution.err = NoError <=> RuleAccepts(call)
             /\ call.resolution.err = NoError => call.resolution.method = StepOf(call)
       /\ call.op = "requestChallenge" =>
             /\ call.token = NullToken
             /\ call.pc # "authenticated"
             /\ call.resolution.err # NoError => call.pc = "failed" /\ Untouched(call)
             /\ (call.resolution.err = NoError /\ StepOf(call) = "code") =>
                  /\ call.pc \in {"resolved", "done"}
                  /\ call.pc = "resolved" => Untouched(call)
                  /\ call.pc = "done" =>
                       /\ Len(call.log) = 1
                       /\ Asked(call).fn = "requestChallenge"
                       /\ Asked(call).method = StepOf(call)
                       /\ Asked(call).subjectID = call.subjectID
                       /\ call.result = Asked(call).returned
                       /\ call.err = NoError

\* A challenge was requested for the second step by name, with the first
\* step's token, and the code backend's challenge came back.
C12_Witness ==
  \E c \in Slots :
    /\ calls[c].op = "requestChallenge"
    /\ calls[c].pc = "done"
    /\ calls[c].previousToken \in MintedTokens
    /\ calls[c].method = "code"
    /\ calls[c].subjectID = "user2"
    /\ Asked(calls[c]).method = "code"
    /\ calls[c].result.sent

\* The backend of the step a call is for accepts the call's secret: for the
\* code backend, the secret is the code that is pending when it is asked.
SecretIsAccepted(call) ==
  IF StepOf(call) = "code"
  THEN IF call.log # <<>>
       THEN Asked(call).pending = call.secret
       ELSE userCodes[call.subjectID] = call.secret
  ELSE BackendAccepts(StepOf(call), userCodes, call.subjectID, call.secret)

\* What a successful call for its step returns: a token of the subject from
\* that step, final with no next step for the last step, else not final with
\* the following step as the next one.
ReturnsStepResult(call) ==
  /\ call.result.token = call.token
  /\ call.token.payload.from = StepOf(call)
  /\ call.token.payload.sub = call.subjectID
  /\ call.result.final = (StepOf(call) = authSteps[Len(authSteps)])
  /\ call.result.next = IF StepOf(call) = authSteps[Len(authSteps)]
                        THEN JNull
                        ELSE JArray(<<authSteps[Position(StepOf(call)) + 1]>>)

\* C13 as stated: a getToken that repeats a step a backend rejected before
\* (same subjectID, previousToken and method), any number of times, with a
\* secret the backend accepts, succeeds with the step's result.
C13_RetrySucceeds ==
  \A c \in Slots :
    LET call == calls[c]
    IN (call.op = "getToken" /\ call.failedBefore > 0 /\ SecretIsAccepted(call)) =>
         /\ call.pc # "failed"
         /\ call.pc = "done" => ReturnsStepResult(call)

\* C13, amended: a rejected getToken leaves the backend's pending code and the
\* set of signed tokens as they were, and a getToken that repeats the step
\* (same subjectID, previousToken and method), any number of times, with a
\* secret the backend accepts, succeeds with the step's result, provided the
\* previous token has not expired by then.
C13_RetrySucceedsUnexpired ==
  \A c \in Slots :
    LET call == calls[c]
    IN /\ (call.op = "getToken" /\ call.pc = "failed" /\ call.log # <<>>) =>
            /\ userCodes[call.subjectID] = Asked(call).pending
            /\ call.token = NullToken
            /\ call.token \notin MintedTokens
       /\ (call.op = "getToken" /\ call.failedBefore > 0 /\ SecretIsAccepted(call)
            /\ call.resolution.err # "jwt expired") =>
            /\ call.pc # "failed"
            /\ call.pc = "done" => ReturnsStepResult(call)

\* After two rejected attempts at a later step, the third attempt succeeded.
C13_Witness ==
  \E c \in Slots :
    /\ calls[c].op = "getToken"
    /\ calls[c].failedBefore >= 2
    /\ calls[c].previousToken # NullToken
    /\ calls[c].pc = "done"
    /\ calls[c].result.token = calls[c].token

\* Both slots hold getToken calls of one subject that present the same
\* intermediate token of the orchestrator's (started together, or one after
\* the other had got as far as it has).
SameTokenTwice ==
  /\ calls[1].op = "getToken"
  /\ calls[2].op = "getToken"
  /\ calls[1].subjectID = calls[2].subjectID
  /\ calls[1].previousToken = calls[2].previousToken
  /\ calls[1].previousToken \in MintedTokens
  /\ ~calls[1].previousToken.payload.final
  /\ calls[1].previousToken.payload.sub = calls[1].subjectID

\* The backend accepts the call's secret: it did when it was asked, or, not
\* asked so far, it would when asked now.
BackendAcceptsSecret(call) ==
  IF call.log # <<>>
  THEN Asked(call).outcome = NoError
  ELSE BackendAccepts(StepOf(call), userCodes, call.subjectID, call.secret)

\* The token passes as the previous token of a call of the subject made when
\* the token is issued.
ValidAsPreviousToken(token, subjectID) ==
  VerifyPreviousToken(authSteps, token, subjectID, Null, token.payload.iat).err = NoError

\* C14 as stated: of two getToken calls of one subject with the same
\* intermediate token, however their steps interleave, each one whose secret
\* the backend accepts succeeds, with a token that is valid as the next
\* previous token.
C14_SameTokenTwiceSucceeds ==
  SameTokenTwice =>
    \A c \in Slots :
      BackendAcceptsSecret(calls[c]) =>
        /\ calls[c].pc # "failed"
        /\ calls[c].pc = "done" =>
             /\ calls[c].result.token = calls[c].token
             /\ ValidAsPreviousToken(calls[c].token, calls[c].subjectID)

\* C14, amended: of two getToken calls of one subject with the same
\* intermediate token, however their steps interleave, each one that presents
\* the token before it expires and whose secret the backend accepts succeeds,
\* with the result of the step: a token of the subject that verifies and is
\* final when the step is the last one, and valid as the next previous token
\* when it is not. A token that a call was completed with is still accepted.
C14_SameTokenTwiceUnexpired ==
  SameTokenTwice =>
    \A c \in Slots :
      (BackendAcceptsSecret(calls[c]) /\ calls[c].resolution.err # "jwt expired") =>
        /\ calls[c].resolution.err = NoError
        /\ calls[c].pc # "failed"
        /\ calls[c].pc = "done" =>
             /\ ReturnsStepResult(calls[c])
             /\ VerifyToken(calls[c].token, calls[c].subjectID,
                            calls[c].token.payload.iat).err = NoError
             /\ calls[c].token.payload.final
                  \/ ValidAsPreviousToken(calls[c].token, calls[c].subjectID)

\* Both calls were completed with the same token of a first step, for a step
\* that is not the last, and the second started after the first had its token.
C14_Witness ==
  /\ SameTokenTwice
  /\ calls[1].pc = "done"
  /\ calls[2].pc = "done"
  /\ ~calls[1].token.payload.final
  /\ ~calls[2].token.payload.final
  /\ \E m \in minted : m.token = calls[1].token /\ m.previousToken = calls[1].previousToken
  /\ \E m \in minted : m.token = calls[2].token /\ m.previousToken = calls[2].previousToken

\* C15: whenever the orchestrator has signed a token from step i for a
\* subject, the backends of steps 1..i have each accepted an authenticate call
\* for that subject, one after the other in the order of the steps; and a
\* signed token is final only if it comes from the last step.
C15_TokensFollowAcceptances ==
  \A m \in minted :
    /\ m.token.payload.from \in {authSteps[i] : i \in 1..Len(authSteps)}
    /\ progress[m.token.payload.sub] >= Position(m.token.payload.from)
    /\ m.token.payload.final => m.token.payload.from = authSteps[Len(authSteps)]

\* A final token of a three-step sequence has been signed.
C15_Witness ==
  \E m \in minted :
    /\ Len(authSteps) = 3
    /\ m.token.payload.final
    /\ m.token.payload.from = authSteps[3]
    /\ progress[m.token.payload.sub] = 3

\* C16: in a getToken call the backend is asked only after the previous token
\* verified and the method resolved, and it is asked for that method; it is
\* asked at most once, also when it rejects; and a token is signed only after
\* the one authenticate call was accepted.
C16_VerifyAuthenticateSign ==
  \A c \in Slots :
    LET call == calls[c]
    IN call.op = "getToken" =>
         /\ Len(call.log) <= 1
         /\ call.log # <<>> =>
              /\ call.resolution.err = NoError
              /\ Asked(call).fn = "authenticate"
              /\ Asked(call).method = call.resolution.method
              /\ Asked(call).outcome # NoError => call.pc = "failed"
         /\ call.token # NullToken =>
              /\ call.log # <<>>
              /\ Asked(call).outcome = NoError
              /\ call.pc = "done"
         /\ call.pc = "resolved" => call.log = <<>>
         /\ call.pc = "authenticated" => call.log # <<>> /\ Asked(call).outcome = NoError
         /\ call.pc = "done" => call.token # NullToken

\* A call for a later step went through the three steps.
C16_Witness ==
  \E c \in Slots :
    /\ calls[c].op = "getToken"
    /\ calls[c].pc = "done"
    /\ calls[c].previousToken \in MintedTokens
    /\ Len(calls[c].log) = 1
    /\ Asked(calls[c]).outcome = NoError
    /\ calls[c].token \in MintedTokens

\* The token carries the signature of the orchestrator's key over its payload.
CorrectlySigned(token) ==
  token.alg = "HS256" /\ token.sig = HMAC(tokenKey, token.alg, token.payload)

\* C17: a getToken or requestChallenge call that presents a token correctly
\* signed with the orchestrator's key, not final, whose from is none of the
\* configured steps, fails, whatever method it asks for, and no backend is
\* asked; when the token is otherwise in order (unexpired, of the subject) the
\* failure is the one of lines 120-122.
C17_ForeignStepFails ==
  \A c \in Slots :
    LET call == calls[c]
    IN (/\ call.op \in {"getToken", "requestChallenge"}
        /\ CorrectlySigned(call.previousToken)
        /\ ~call.previousToken.payload.final
        /\ \A i \in 1..Len(authSteps) : authSteps[i] # call.previousToken.payload.from) =>
         /\ call.pc = "failed"
         /\ call.err \in VerifyErrors \cup {InvalidStepError}
         /\ (call.previousToken.payload.sub = call.subjectID
              /\ call.err # "jwt expired") => call.err = InvalidStepError
         /\ Untouched(call)

\* A getToken that names the first step and presents a token from a step that
\* is not configured was refused for the token's step.
C17_Witness ==
  \E c \in Slots :
    /\ calls[c].op = "getToken"
    /\ calls[c].method = authSteps[1]
    /\ CorrectlySigned(calls[c].previousToken)
    /\ calls[c].previousToken.payload.from = "sms"
    /\ calls[c].pc = "failed"
    /\ calls[c].err = InvalidStepError

\* C18: a requestChallenge that finds a code pending for the subject delivers
\* that code and leaves it pending; one that finds none (at first, or after
\* the pending code was accepted) delivers a code that has never been accepted
\* and is now the pending one. A code that was accepted is never pending
\* again, and an authenticate that brings it is rejected.
C18_PendingCodeReusedSpentCodeNot ==
  /\ \A c \in Slots :
       LET call == calls[c]
       IN (call.op = "requestChallenge" /\ call.pc = "done") =>
            /\ Asked(call).pending # Undefined => Asked(call).code = Asked(call).pending
            /\ Asked(call).code \notin {x.code : x \in consumed}
            /\ ~Asked(call).spent
            /\ Asked(call).recorded = Asked(call).code
  /\ \A x \in consumed : userCodes[x.subjectID] # x.code
  /\ \A c \in Slots :
       (calls[c].op = "getToken" /\ calls[c].log # <<>> /\ Asked(calls[c]).spent) =>
          Asked(calls[c]).outcome # NoError

\* The first challenge after the subject's code was accepted delivered another
\* code.
C18_Witness ==
  \E c \in Slots :
    /\ calls[c].op = "requestChallenge"
    /\ calls[c].pc = "done"
    /\ Asked(calls[c]).pending = Undefined
    /\ \E x \in consumed : /\ x.subjectID = calls[c].subjectID
                          /\ x.code # Asked(calls[c]).code
    /\ userCodes[calls[c].subjectID] = Asked(calls[c]).code

\* Of the backends of the tests only CodeBackend has a requestChallenge.
ImplementsRequestChallenge(method) == method = "code"

\* C19: a requestChallenge call that resolved to a method whose backend has no
\* requestChallenge is rejected: until then it is pending with the rejecting
\* step ready to run, and it never fulfils, with a challenge, null or anything
\* else; no backend is asked and no token signed.
C19_UnsupportedChallengeRejected ==
  \A c \in Slots :
    LET call == calls[c]
    IN (/\ call.op = "requestChallenge"
        /\ call.resolution.err = NoError
        /\ ~ImplementsRequestChallenge(call.resolution.method)) =>
         /\ call.pc \in {"resolved", "failed"}
         /\ call.pc = "resolved" => ENABLED ChallengeUnsupported(c)
         /\ call.pc = "failed" => call.err = "TypeError"
         /\ Untouched(call)

\* A challenge was requested for the date step of a flow and the call rejected.
C19_Witness ==
  \E c \in Slots :
    /\ calls[c].op = "requestChallenge"
    /\ calls[c].previousToken \in MintedTokens
    /\ calls[c].resolution.err = NoError
    /\ calls[c].resolution.method = "date"
    /\ calls[c].pc = "failed"
    /\ calls[c].err = "TypeError"

C21_ChallengeNamesMethod ==
  \A c \in Slots :
    (calls[c].op = "requestChallenge" /\ calls[c].pc = "done") =>
       calls[c].result.method = calls[c].resolution.method
====
